---- MODULE Spec2Model ----
(***************************************************************************)
(* Fatigue scoring, blink tracking and multi-frame aggregation of the      *)
(* face analysis service (faceAnalysisService.ts, restAnalysisService.ts). *)
(*                                                                         *)
(* Numbers are fixed point, so that every product and sum of the source    *)
(* is exact:                                                               *)
(*   - eye aspect ratios are in thousandths            (0.3   is 300),     *)
(*   - every other metric is in hundredths             (60    is 6000),    *)
(*   - confidence is in hundredths                     (0.85  is 85),      *)
(*   - fatigue scores are in ten-thousandths of a point (60   is 600000),  *)
(*     the unit of  metric (hundredths) * weight (hundredths),             *)
(*   - times are milliseconds,                                             *)
(*   - a mean is kept as the fraction  num / den.                          *)
(***************************************************************************)
EXTENDS Integers, Sequences, FiniteSets, TLC

VARIABLES
    isInitialized,   \* FaceAnalysisService.isInitialized
    detectorsLoaded, \* faceDetector and landmarkDetector are non-null
    previousBlinks,  \* FaceAnalysisService.previousBlinks
    fatigueHistory,  \* FaceAnalysisService.fatigueHistory
    now,             \* Date.now()
    pc,              \* position of the analyzeFace call in flight
    face,            \* faces[0].score of the call in flight
    result,          \* outcome of the last completed analyzeFace call
    blinkUpdate,     \* what the last trackBlinks call saw and did
    computed,        \* every fatigue score analyzeFace has computed, in order
    sessionFrames,   \* frames analysed since the last initialize()
    video,           \* position of the analyzeVideo run
    frameIndex,      \* the loop counter i of analyzeVideo
    analyses,        \* the argument of aggregateFrameAnalyses
    aggregated,      \* outcome of aggregateFrameAnalyses
    metrics,         \* the argument of calculateFatigueScore
    score,           \* outcome of calculateFatigueScore
    classification,  \* outcome of calculateTrend
    advice,          \* outcome of generateRecommendations
    calls,           \* the overlapping analyzeFace calls, by caller
    landmarks,       \* the argument of analyzeHealthMetrics
    returned,        \* what analyzeVideo resolves with
    resultsStore,    \* the list under RESULTS_STORAGE_KEY
    faceStore,       \* the list under FACE_ANALYSIS_STORAGE_KEY
    saves            \* the saveFaceAnalysisResult calls in flight, by caller

vars == <<isInitialized, detectorsLoaded, previousBlinks, fatigueHistory, now,
          pc, face, result, blinkUpdate, computed, sessionFrames, video,
          frameIndex, analyses, aggregated, metrics, score, classification,
          advice, calls, landmarks, returned, resultsStore, faceStore, saves>>

serviceVars == <<isInitialized, detectorsLoaded, previousBlinks,
                 fatigueHistory, now, pc, face, result, blinkUpdate,
                 computed, sessionFrames>>

videoVars == <<video, frameIndex>>

aggregateVars == <<analyses, aggregated>>

scoreVars == <<metrics, score>>

trendVars == <<classification>>

recommendVars == <<advice>>

overlapVars == <<calls>>

extractVars == <<landmarks>>

outcomeVars == <<returned, resultsStore>>

saveVars == <<faceStore, saves>>

----------------------------------------------------------------------------
(* Units and small helpers *)

\* n whole units as hundredths
Hundredths(n) == n * 100

\* n score points as ten-thousandths of a point
Points(n) == n * 10000

Min(a, b) == IF a < b THEN a ELSE b

Max(a, b) == IF a > b THEN a ELSE b

Last(s) == s[Len(s)]

\* Array.prototype.reduce((a, b) => a + b, 0) over a list of numbers
RECURSIVE Sum(_)
Sum(s) == IF s = <<>> THEN 0 ELSE Sum(SubSeq(s, 1, Len(s) - 1)) + Last(s)

\* Array.prototype.filter(flag).length over a list of booleans
Count(flags) == Len(SelectSeq(flags, LAMBDA flag : flag))

----------------------------------------------------------------------------
(* Program constants *)

blinkThreshold == 250

BlinkDebounceMs == 200

BlinkWindowMs == 60000

MaxFatigueHistory == 30

RestThreshold == 60

SleepThreshold == 80

Trends == {"improving", "stable", "declining"}

----------------------------------------------------------------------------
(* Metric extraction: FaceAnalysisService.analyzeHealthMetrics and helpers. *)
(* A landmark set lm is given by what the geometry helpers measure on it:   *)
(*   leftEyePoints, rightEyePoints  number of eye keypoints present,        *)
(*   leftRatio, rightRatio          (vertical1 + vertical2) / (2 horizontal)*)
(*   eyeVariance, tensionVariance, faceVariance                             *)
(*                                  calculatePointVariance of the eye, the  *)
(*                                  forehead/jaw/mouth and all keypoints,   *)
(*   poseRefs                       nose, both eyes and chin are present,   *)
(*   pitch, yaw, roll               |atan2| angles in degrees.              *)

calculateEyeAspectRatio(points, ratio) ==
    IF points < 6 THEN 300 ELSE ratio

calculateEyeStrain(lm) == Min(Hundredths(100), lm.eyeVariance * 50)

calculateFacialTension(lm) == Min(Hundredths(100), lm.tensionVariance * 30)

calculateHeadPose_noFallback(lm) ==
    [pitch |-> lm.pitch, yaw |-> lm.yaw, roll |-> lm.roll]

calculateHeadPose(lm) ==
    IF ~lm.poseRefs
    THEN [pitch |-> 0, yaw |-> 0, roll |-> 0]
    ELSE [pitch |-> lm.pitch, yaw |-> lm.yaw, roll |-> lm.roll]

analyzeSkinCondition(lm) ==
    [pallor   |-> Min(Hundredths(100), lm.faceVariance * 20),
     darkness |-> Min(Hundredths(100), lm.faceVariance * 15)]

\* avgEAR of analyzeHealthMetrics; the sample ratios have an even sum
avgEAR(lm) ==
    (calculateEyeAspectRatio(lm.leftEyePoints, lm.leftRatio)
     + calculateEyeAspectRatio(lm.rightEyePoints, lm.rightRatio)) \div 2

isBlinking(lm) == avgEAR(lm) < blinkThreshold

\* the if / else-if of trackBlinks: the list before it is pruned
trackBlinksPush_inclusive(blinks, blinking, currentTime) ==
    IF blinking /\ Len(blinks) > 0
    THEN IF currentTime - Last(blinks) >= BlinkDebounceMs
         THEN Append(blinks, currentTime)
         ELSE blinks
    ELSE IF blinking /\ Len(blinks) = 0
         THEN Append(blinks, currentTime)
         ELSE blinks

trackBlinksPush(blinks, blinking, currentTime) ==
    IF blinking /\ Len(blinks) > 0
    THEN IF currentTime - Last(blinks) > BlinkDebounceMs
         THEN Append(blinks, currentTime)
         ELSE blinks
    ELSE IF blinking /\ Len(blinks) = 0
         THEN Append(blinks, currentTime)
         ELSE blinks

trackBlinks_keepAll(blinks, blinking, currentTime) ==
    trackBlinksPush(blinks, blinking, currentTime)

trackBlinks(blinks, blinking, currentTime) ==
    LET Recent(time) == currentTime - time < BlinkWindowMs
    IN  SelectSeq(trackBlinksPush(blinks, blinking, currentTime), Recent)

calculateBlinkRate(blinks) == Len(blinks)

\* analyzeHealthMetrics after trackBlinks, given calculateBlinkRate()
analyzeHealthMetrics(lm, blinkRate) ==
    LET ear           == avgEAR(lm)
        facialTension == calculateFacialTension(lm)
        headPose      == calculateHeadPose(lm)
    IN  [eyeAspectRatio |-> ear,
         blinkRate      |-> blinkRate,
         eyeStrain      |-> calculateEyeStrain(lm),
         facialTension  |-> facialTension,
         headPose       |-> headPose,
         skinAnalysis   |-> analyzeSkinCondition(lm),
         drowsinessIndicators |->
            [heavyEyelids            |-> ear < 200,
             slowBlinks              |-> blinkRate < 10,
             headDropping            |-> headPose.pitch > Hundredths(15),
             reducedFacialExpression |-> facialTension < 30]]

----------------------------------------------------------------------------
(* Fatigue score, trend and recommendations *)

earFatigue_unclamped(eyeAspectRatio) == (300 - eyeAspectRatio) * 30

\* Math.max(0, (0.3 - metrics.eyeAspectRatio) * 300), in hundredths
earFatigue(eyeAspectRatio) == Max(0, (300 - eyeAspectRatio) * 30)

blinkFatigue_flatAtTen(blinkRate) ==
    IF blinkRate <= 10
    THEN Hundredths(80)
    ELSE Max(0, (30 - blinkRate) * 200)

\* metrics.blinkRate < 10 ? 80 : Math.max(0, (30 - metrics.blinkRate) * 2),
\* in hundredths
blinkFatigue(blinkRate) ==
    IF blinkRate < 10
    THEN Hundredths(80)
    ELSE Max(0, (30 - blinkRate) * 200)

\* the weighted sum of calculateFatigueScore, in ten-thousandths of a point
totalScore(m) ==
    LET strainFatigue  == m.eyeStrain
        tensionFatigue == Hundredths(100) - m.facialTension
        poseFatigue    == m.headPose.pitch * 3
    IN  earFatigue(m.eyeAspectRatio) * 30 + blinkFatigue(m.blinkRate) * 20
        + strainFatigue * 20 + tensionFatigue * 15 + poseFatigue * 15

calculateFatigueScore_unclamped(m) == totalScore(m)

calculateFatigueScore(m) == Min(Points(100), Max(0, totalScore(m)))

\* Array.prototype.slice(from, to) with from, to counted from the end
SliceFromEnd(s, from, to) ==
    SubSeq(s, Max(0, Len(s) - from) + 1, Len(s) - to)

\* fatigueHistory.push(fatigueScore), then shift() beyond 30 entries
recordScore_dropNewest(history, fatigueScore) ==
    LET appended == Append(history, fatigueScore)
    IN  IF Len(appended) > MaxFatigueHistory
        THEN SubSeq(appended, 1, Len(appended) - 1)
        ELSE appended

recordScore(history, fatigueScore) ==
    LET appended == Append(history, fatigueScore)
    IN  IF Len(appended) > MaxFatigueHistory
        THEN Tail(appended)
        ELSE appended

calculateTrend_inclusive(history) ==
    IF Len(history) < 5 THEN "stable"
    ELSE LET recent == SliceFromEnd(history, 5, 0)
             older  == SliceFromEnd(history, 10, 5)
         IN  IF Len(older) = 0 THEN "stable"
             ELSE LET difference == Sum(recent) * Len(older)
                                    - Sum(older) * Len(recent)
                      scale      == Len(recent) * Len(older)
                  IN  IF difference <= (-Points(5)) * scale THEN "improving"
                      ELSE IF difference >= Points(5) * scale THEN "declining"
                      ELSE "stable"

calculateTrend_shortWindows(history) ==
    IF Len(history) < 3 THEN "stable"
    ELSE LET recent == SliceFromEnd(history, 3, 0)
             older  == SliceFromEnd(history, 6, 3)
         IN  IF Len(older) = 0 THEN "stable"
             ELSE LET difference == Sum(recent) * Len(older)
                                    - Sum(older) * Len(recent)
                      scale      == Len(recent) * Len(older)
                  IN  IF difference < (-Points(5)) * scale THEN "improving"
                      ELSE IF difference > Points(5) * scale THEN "declining"
                      ELSE "stable"

calculateTrend(history) ==
    IF Len(history) < 5 THEN "stable"
    ELSE LET recent == SliceFromEnd(history, 5, 0)
             older  == SliceFromEnd(history, 10, 5)
         IN  IF Len(older) = 0 THEN "stable"
             ELSE LET \* (recentAvg - olderAvg) * recent.length * older.length
                      difference == Sum(recent) * Len(older)
                                    - Sum(older) * Len(recent)
                      scale      == Len(recent) * Len(older)
                  IN  IF difference < (-Points(5)) * scale THEN "improving"
                      ELSE IF difference > Points(5) * scale THEN "declining"
                      ELSE "stable"

generateRecommendations_poseFirst(m, fatigueScore) ==
    LET level == IF fatigueScore > Points(80)
                 THEN <<"Take a 20-30 minute nap immediately",
                        "Avoid driving or operating machinery">>
                 ELSE IF fatigueScore > Points(60)
                 THEN <<"Take a 10-15 minute break",
                        "Get some fresh air or light exercise">>
                 ELSE <<>>
        strain == IF m.eyeStrain > Hundredths(60)
                  THEN <<"Look away from screens for 5-10 minutes",
                         "Practice the 20-20-20 rule (look 20 feet away for 20 seconds every 20 minutes)">>
                  ELSE <<>>
        blink  == IF m.blinkRate < 10
                  THEN <<"Consciously blink more frequently",
                         "Use eye drops if eyes feel dry">>
                  ELSE <<>>
        pose   == IF m.headPose.pitch > Hundredths(15)
                  THEN <<"Improve your posture",
                         "Adjust your workspace ergonomics">>
                  ELSE <<>>
        recommendations == level \o strain \o pose \o blink
    IN  IF Len(recommendations) = 0
        THEN <<"Your alertness levels look good!",
               "Keep maintaining healthy sleep habits">>
        ELSE recommendations

generateRecommendations_alwaysPositive(m, fatigueScore) ==
    LET level == IF fatigueScore > Points(80)
                 THEN <<"Take a 20-30 minute nap immediately",
                        "Avoid driving or operating machinery">>
                 ELSE IF fatigueScore > Points(60)
                 THEN <<"Take a 10-15 minute break",
                        "Get some fresh air or light exercise">>
                 ELSE <<>>
        strain == IF m.eyeStrain > Hundredths(60)
                  THEN <<"Look away from screens for 5-10 minutes",
                         "Practice the 20-20-20 rule (look 20 feet away for 20 seconds every 20 minutes)">>
                  ELSE <<>>
        blink  == IF m.blinkRate < 10
                  THEN <<"Consciously blink more frequently",
                         "Use eye drops if eyes feel dry">>
                  ELSE <<>>
        pose   == IF m.headPose.pitch > Hundredths(15)
                  THEN <<"Improve your posture",
                         "Adjust your workspace ergonomics">>
                  ELSE <<>>
        recommendations == level \o strain \o blink \o pose
    IN  recommendations \o <<"Your alertness levels look good!",
                             "Keep maintaining healthy sleep habits">>

\* a variant whose blink rule is an else-branch of the strain rule
generateRecommendations_blinkElseStrain(m, fatigueScore) ==
    LET level == IF fatigueScore > Points(80)
                 THEN <<"Take a 20-30 minute nap immediately",
                        "Avoid driving or operating machinery">>
                 ELSE IF fatigueScore > Points(60)
                 THEN <<"Take a 10-15 minute break",
                        "Get some fresh air or light exercise">>
                 ELSE <<>>
        strain == IF m.eyeStrain > Hundredths(60)
                  THEN <<"Look away from screens for 5-10 minutes",
                         "Practice the 20-20-20 rule (look 20 feet away for 20 seconds every 20 minutes)">>
                  ELSE <<>>
        blink  == IF m.blinkRate < 10 /\ strain = <<>>
                  THEN <<"Consciously blink more frequently",
                         "Use eye drops if eyes feel dry">>
                  ELSE <<>>
        pose   == IF m.headPose.pitch > Hundredths(15)
                  THEN <<"Improve your posture",
                         "Adjust your workspace ergonomics">>
                  ELSE <<>>
        recommendations == level \o strain \o blink \o pose
    IN  IF Len(recommendations) = 0
        THEN <<"Your alertness levels look good!",
               "Keep maintaining healthy sleep habits">>
        ELSE recommendations

generateRecommendations(m, fatigueScore) ==
    LET level == IF fatigueScore > Points(80)
                 THEN <<"Take a 20-30 minute nap immediately",
                        "Avoid driving or operating machinery">>
                 ELSE IF fatigueScore > Points(60)
                 THEN <<"Take a 10-15 minute break",
                        "Get some fresh air or light exercise">>
                 ELSE <<>>
        strain == IF m.eyeStrain > Hundredths(60)
                  THEN <<"Look away from screens for 5-10 minutes",
                         "Practice the 20-20-20 rule (look 20 feet away for 20 seconds every 20 minutes)">>
                  ELSE <<>>
        blink  == IF m.blinkRate < 10
                  THEN <<"Consciously blink more frequently",
                         "Use eye drops if eyes feel dry">>
                  ELSE <<>>
        pose   == IF m.headPose.pitch > Hundredths(15)
                  THEN <<"Improve your posture",
                         "Adjust your workspace ergonomics">>
                  ELSE <<>>
        recommendations == level \o strain \o blink \o pose
    IN  IF Len(recommendations) = 0
        THEN <<"Your alertness levels look good!",
               "Keep maintaining healthy sleep habits">>
        ELSE recommendations

\* face.score || 0, with face.score an optional number
Confidence(faceScore) ==
    IF Len(faceScore) = 0 THEN 0 ELSE faceScore[1]

needsRest_inclusive(fatigueScore) == fatigueScore >= Points(RestThreshold)

needsRest(fatigueScore) == fatigueScore > Points(RestThreshold)

needsSleep(fatigueScore) == fatigueScore > Points(SleepThreshold)

\* the FaceAnalysisResult literal of analyzeFace
FaceAnalysisResult(faceScore, healthMetrics, fatigueScore, trend) ==
    [faceDetected    |-> TRUE,
     confidence      |-> Confidence(faceScore),
     healthMetrics   |-> healthMetrics,
     fatigueScore    |-> fatigueScore,
     needsRest       |-> needsRest(fatigueScore),
     needsSleep      |-> needsSleep(fatigueScore),
     trend           |-> trend,
     recommendations |-> generateRecommendations(healthMetrics, fatigueScore)]

----------------------------------------------------------------------------
(* Frame aggregation: aggregateFrameAnalyses of restAnalysisService.ts *)

\* analyses.reduce((sum, a) => sum + a.field, 0) / analyses.length,
\* given the list of the a.field
Average_skipFirst(values) ==
    [num |-> Sum(Tail(values)), den |-> Len(values)]

Average(values) ==
    [num |-> Sum(values), den |-> Len(values)]

\* analyses.filter(a => a.flag).length > analyses.length / 2,
\* given the list of the a.flag
Majority_withTies(flags) == Count(flags) * 2 >= Len(flags)

Majority(flags) == Count(flags) * 2 > Len(flags)

\* analyses.flatMap(a => a.recommendations)
RECURSIVE FlatRecommendations(_)
FlatRecommendations(as) ==
    IF as = <<>> THEN <<>>
    ELSE Head(as).recommendations \o FlatRecommendations(Tail(as))

\* [...new Set(list)]: a Set iterates in insertion order
Unique(list) ==
    LET first == {i \in 1..Len(list) :
                    \A j \in 1..(i - 1) : list[j] # list[i]}
        place(k) == CHOOSE i \in first :
                        Cardinality({j \in first : j <= i}) = k
    IN  [k \in 1..Cardinality(first) |-> list[place(k)]]

allRecommendations_keepDuplicates(as) == FlatRecommendations(as)

allRecommendations(as) == Unique(FlatRecommendations(as))

\* analyses[analyses.length - 1]?.trend || 'stable'
mostRecentTrend_first(as) ==
    IF Len(as) = 0 THEN "stable" ELSE as[1].trend

mostRecentTrend(as) ==
    IF Len(as) = 0 THEN "stable" ELSE as[Len(as)].trend

\* avgFatigueScore > 60, avgFatigueScore > 80
sessionNeedsRest_inclusive(avg) == avg.num >= Points(RestThreshold) * avg.den

sessionNeedsRest(avg) == avg.num > Points(RestThreshold) * avg.den

sessionNeedsSleep_low(avg) == avg.num > Points(RestThreshold - 20) * avg.den

sessionNeedsSleep(avg) == avg.num > Points(SleepThreshold) * avg.den

\* the body of aggregateFrameAnalyses after the empty check
aggregateResult(as) ==
    LET frames == 1..Len(as)
        healthMetrics == [i \in frames |-> as[i].healthMetrics]
        headPose      == [i \in frames |-> as[i].healthMetrics.headPose]
        skinAnalysis  == [i \in frames |-> as[i].healthMetrics.skinAnalysis]
        indicators    ==
            [i \in frames |-> as[i].healthMetrics.drowsinessIndicators]
        avgFatigueScore == Average([i \in frames |-> as[i].fatigueScore])
    IN  [faceDetected  |-> TRUE,
         confidence    |-> Average([i \in frames |-> as[i].confidence]),
         healthMetrics |->
            [eyeAspectRatio |->
                Average([i \in frames |-> healthMetrics[i].eyeAspectRatio]),
             blinkRate      |->
                Average([i \in frames |-> healthMetrics[i].blinkRate]),
             eyeStrain      |->
                Average([i \in frames |-> healthMetrics[i].eyeStrain]),
             facialTension  |->
                Average([i \in frames |-> healthMetrics[i].facialTension]),
             headPose       |->
                [pitch |-> Average([i \in frames |-> headPose[i].pitch]),
                 yaw   |-> Average([i \in frames |-> headPose[i].yaw]),
                 roll  |-> Average([i \in frames |-> headPose[i].roll])],
             skinAnalysis   |->
                [pallor   |->
                    Average([i \in frames |-> skinAnalysis[i].pallor]),
                 darkness |->
                    Average([i \in frames |-> skinAnalysis[i].darkness])],
             drowsinessIndicators |->
                [heavyEyelids |->
                    Majority([i \in frames |-> indicators[i].heavyEyelids]),
                 slowBlinks   |->
                    Majority([i \in frames |-> indicators[i].slowBlinks]),
                 headDropping |->
                    Majority([i \in frames |-> indicators[i].headDropping]),
                 reducedFacialExpression |->
                    Majority([i \in frames |->
                                 indicators[i].reducedFacialExpression])]],
         fatigueScore    |-> avgFatigueScore,
         needsRest       |-> sessionNeedsRest(avgFatigueScore),
         needsSleep      |-> sessionNeedsSleep(avgFatigueScore),
         trend           |-> mostRecentTrend(as),
         recommendations |-> allRecommendations(as)]

aggregateFrameAnalyses_noCheck(as) ==
    [kind |-> "result", value |-> aggregateResult(as)]

aggregateFrameAnalyses(as) ==
    IF Len(as) = 0
    THEN [kind |-> "error", message |-> "No frame analyses available"]
    ELSE [kind |-> "result", value |-> aggregateResult(as)]

----------------------------------------------------------------------------
(* Saved results: saveResult and saveFaceAnalysisResult *)

\* a clock value in whole seconds, the unit of the stored timestamps
Seconds(ms) == ms \div 1000

\* 30 * 24 * 60 * 60 * 1000 milliseconds, in seconds
RetentionSeconds == 30 * 24 * 60 * 60

\* updatedResults.filter(r => r.timestamp >= thirtyDaysAgo)
keepRecent(results, clock) ==
    LET Recent(r) == r.timestamp >= clock - RetentionSeconds
    IN  SelectSeq(results, Recent)

\* the list written back by saveResult and by saveFaceAnalysisResult
saveResult(existingResults, r, clock) ==
    keepRecent(Append(existingResults, r), clock)

----------------------------------------------------------------------------
(* Bounds and sample inputs *)

\* analyzeFace is not called again once this many scores are recorded
MaxAnalyses == 3

\* overlapping analyzeFace calls stop once this many scores are under way
MaxOverlapScores == 3

\* results a caller passes to saveFaceAnalysisResult
MaxSaves == 2

\* the clock stops here
MaxTime == 500

\* the history specification stops after this many computed scores
MaxComputed == 32

\* the trend specification stops at histories of this length
MaxTrendHistory == 10

\* aggregateFrameAnalyses is applied to lists of at most this many frames
MaxFrames == 3

\* advances of Date.now() between two steps
TickSteps == {150, 200, 250}

\* advances of Date.now() around the 60000ms blink window
PauseSteps == {59850, 60000}

\* faces[0].score of the face detector (an optional number): absent, 0.85,
\* or 1.5 from a detector that does not normalise its score
FaceScores == {<<>>, <<85>>, <<150>>}

Landmarks(eyePoints, ratio, eyeVar, tensionVar, refs, pitchDeg) ==
    [leftEyePoints |-> eyePoints, rightEyePoints |-> eyePoints,
     leftRatio |-> ratio, rightRatio |-> ratio,
     eyeVariance |-> eyeVar, tensionVariance |-> tensionVar,
     faceVariance |-> 100, poseRefs |-> refs,
     pitch |-> Hundredths(pitchDeg), yaw |-> Hundredths(10),
     roll |-> Hundredths(5)]

\* open eyes, still face, upright head
AlertFace == Landmarks(16, 300, 0, 400, TRUE, 0)

\* scores 40, 60, 69 and 80 points at a blink rate below 10
Face40 == Landmarks(16, 300, 180, 200, TRUE, 0)

Face60 == Landmarks(16, 200, 200, 0, TRUE, 0)

Face69 == Landmarks(16, 200, 200, 0, TRUE, 20)

Face80 == Landmarks(16, 300, 100, 400, TRUE, 120)

\* nearly closed eyes, dropped head
DrowsyFace == Landmarks(16, 100, 250, 0, TRUE, 60)

\* too few eye keypoints and no head-pose reference points
PartialFace == Landmarks(4, 100, 0, 100, FALSE, 60)

\* Math.floor(bellCurve * 70 + 30) of performFallbackAnalysis: 30..99
FallbackEnergyLevels == {30, 49, 50, 99}

\* landmark sets with some or all eye keypoints and pose references missing
LandmarkSamples ==
    {[Landmarks(left, ratio, 100, 100, refs, pitchDeg)
        EXCEPT !.rightEyePoints = right] :
     left \in {0, 5, 6, 16}, right \in {0, 5, 6, 16}, ratio \in {100, 300},
     refs \in BOOLEAN, pitchDeg \in {0, 60}}

\* fatigue scores recorded in the trend specification
TrendScores == {Points(30), Points(35), Points(80)}

\* arguments of generateRecommendations around each rule's threshold
RecommendMetrics ==
    {[eyeAspectRatio |-> 300, blinkRate |-> rate, eyeStrain |-> strain,
      facialTension |-> Hundredths(50),
      headPose |-> [pitch |-> pitch, yaw |-> 0, roll |-> 0],
      skinAnalysis |-> [pallor |-> 0, darkness |-> 0],
      drowsinessIndicators |->
          [heavyEyelids |-> FALSE, slowBlinks |-> rate < 10,
           headDropping |-> pitch > Hundredths(15),
           reducedFacialExpression |-> FALSE]] :
     rate \in {5, 9, 10, 15},
     strain \in {Hundredths(50), Hundredths(60), Hundredths(70)},
     pitch \in {0, Hundredths(15), Hundredths(20)}}

RecommendScores ==
    {Points(50), Points(60), Points(61), Points(80), Points(81), Points(90)}

\* what the landmark detector returns in the service specification
DetectedLandmarks == {AlertFace, DrowsyFace, PartialFace}

\* the per-frame result of analyzeFace for a landmark set, a blink rate
\* and a trend that the histories of the service produce
Frame(faceScore, lm, blinkRate, trend) ==
    LET healthMetrics == analyzeHealthMetrics(lm, blinkRate)
    IN  FaceAnalysisResult(faceScore, healthMetrics,
                           calculateFatigueScore(healthMetrics), trend)

FrameSamples ==
    {Frame(<<100>>, AlertFace, 30, "stable"),
     Frame(<<85>>, Face40, 5, "stable"),
     Frame(<<85>>, Face60, 5, "improving"),
     Frame(<<100>>, Face69, 5, "stable"),
     Frame(<<100>>, Face80, 5, "declining"),
     Frame(<<>>, DrowsyFace, 5, "declining"),
     Frame(<<85>>, PartialFace, 0, "improving")}

\* arguments of calculateFatigueScore, extreme and out-of-range ones included
MetricSamples ==
    {[eyeAspectRatio |-> ear, blinkRate |-> rate, eyeStrain |-> strain,
      facialTension |-> tension,
      headPose |-> [pitch |-> pitch, yaw |-> 0, roll |-> 0],
      skinAnalysis |-> [pallor |-> 0, darkness |-> 0],
      drowsinessIndicators |->
          [heavyEyelids |-> ear < 200, slowBlinks |-> rate < 10,
           headDropping |-> pitch > Hundredths(15),
           reducedFacialExpression |-> tension < 30]] :
     ear \in {-500, 0, 100, 300, 600},
     rate \in {0, 9, 10, 30, 400},
     strain \in {Hundredths(-50), 0, Hundredths(100)},
     tension \in {0, Hundredths(100), Hundredths(500)},
     pitch \in {0, Hundredths(15), Hundredths(1001)}}

----------------------------------------------------------------------------
(* The service: FaceAnalysisService *)

None == [kind |-> "none"]

ServiceInit ==
    /\ isInitialized = FALSE
    /\ detectorsLoaded = FALSE
    /\ previousBlinks = <<>>
    /\ fatigueHistory = <<>>
    /\ now = 0
    /\ pc = "idle"
    /\ face = <<>>
    /\ result = None
    /\ blinkUpdate = None
    /\ computed = <<>>
    /\ sessionFrames = 0

VideoIdle == video = "idle" /\ frameIndex = 0

TrendIdle == classification = <<>>

RecommendIdle == advice = None

AggregateIdle == analyses = <<>> /\ aggregated = None

ScoreIdle == metrics = None /\ score = <<>>

\* the video analysis loop and the camera interval timer both call
\* analyzeFace of the one service instance
Callers == {"video", "camera"}

NoCall ==
    [pc |-> "idle", face |-> <<>>, result |-> None, history |-> <<>>,
     overlapped |-> FALSE]

OverlapIdle == calls = [c \in Callers |-> NoCall]

ExtractIdle == landmarks = None

OutcomeIdle == returned = None /\ resultsStore = <<>>

\* a caller's saveFaceAnalysisResult call: its position, the list it is
\* about to write, and every result the caller has passed so far
NoSave == [pc |-> "idle", writing |-> <<>>, passed |-> <<>>]

SaveIdle == faceStore = <<>> /\ saves = [c \in Callers |-> NoSave]

StorageIdle == ExtractIdle /\ OutcomeIdle /\ SaveIdle

\* initialize(): both simulated detectors are installed
Initialize ==
    /\ detectorsLoaded' = TRUE
    /\ isInitialized' = TRUE
    /\ sessionFrames' = 0
    /\ UNCHANGED <<previousBlinks, fatigueHistory, now, pc, face, result,
                   blinkUpdate, computed>>

\* dispose(): the detectors stay installed, the histories stay
Dispose ==
    /\ isInitialized' = FALSE
    /\ UNCHANGED <<detectorsLoaded, previousBlinks, fatigueHistory, now, pc,
                   face, result, blinkUpdate, computed, sessionFrames>>

\* Date.now() advances
Tick(d) ==
    /\ now + d <= MaxTime
    /\ now' = now + d
    /\ UNCHANGED <<isInitialized, detectorsLoaded, previousBlinks,
                   fatigueHistory, pc, face, result, blinkUpdate, computed,
                   sessionFrames>>

\* Date.now() advances by about a minute while nothing is analysed
Pause(d) ==
    /\ now <= MaxTime
    /\ now' = now + d
    /\ UNCHANGED <<isInitialized, detectorsLoaded, previousBlinks,
                   fatigueHistory, pc, face, result, blinkUpdate, computed,
                   sessionFrames>>

\* a variant without the not-initialized check
AnalyzeFaceBegin_noCheck ==
    /\ pc = "idle"
    /\ result' = None
    /\ pc' = "faces"
    /\ UNCHANGED <<isInitialized, detectorsLoaded, previousBlinks,
                   fatigueHistory, now, face, blinkUpdate, computed,
                   sessionFrames>>

\* analyzeFace up to its first await
AnalyzeFaceBegin ==
    /\ pc = "idle"
    /\ IF ~isInitialized \/ ~detectorsLoaded
       THEN /\ result' = [kind |-> "threw",
                          message |-> "Face analysis service not initialized"]
            /\ pc' = "idle"
       ELSE /\ result' = None
            /\ pc' = "faces"
    /\ UNCHANGED <<isInitialized, detectorsLoaded, previousBlinks,
                   fatigueHistory, now, face, blinkUpdate, computed,
                   sessionFrames>>

\* analyzeFace is called, as long as the bound allows another score
AnalyzeFaceCall ==
    /\ Len(computed) < MaxAnalyses
    /\ AnalyzeFaceBegin

\* faceDetector.estimateFaces resolves with no face
NoFaceDetected ==
    /\ pc = "faces"
    /\ pc' = "idle"
    /\ result' = [kind |-> "null"]
    /\ UNCHANGED <<isInitialized, detectorsLoaded, previousBlinks,
                   fatigueHistory, now, face, blinkUpdate, computed,
                   sessionFrames>>

\* faceDetector.estimateFaces resolves with a face
FaceDetected(faceScore) ==
    /\ pc = "faces"
    /\ pc' = "landmarks"
    /\ face' = faceScore
    /\ UNCHANGED <<isInitialized, detectorsLoaded, previousBlinks,
                   fatigueHistory, now, result, blinkUpdate, computed,
                   sessionFrames>>

\* landmarkDetector.estimateFaces resolves with no landmark set
NoLandmarksDetected ==
    /\ pc = "landmarks"
    /\ pc' = "idle"
    /\ result' = [kind |-> "null"]
    /\ UNCHANGED <<isInitialized, detectorsLoaded, previousBlinks,
                   fatigueHistory, now, face, blinkUpdate, computed,
                   sessionFrames>>

\* landmarkDetector.estimateFaces resolves with lm: the rest of analyzeFace
\* runs without another await
LandmarksDetected(lm) ==
    /\ pc = "landmarks"
    /\ LET blinking      == isBlinking(lm)
           pushed        == trackBlinksPush(previousBlinks, blinking, now)
           blinks        == trackBlinks(previousBlinks, blinking, now)
           healthMetrics == analyzeHealthMetrics(lm,
                                                 calculateBlinkRate(blinks))
           fatigueScore  == calculateFatigueScore(healthMetrics)
           history       == recordScore(fatigueHistory, fatigueScore)
           recorded      == Len(pushed) > Len(previousBlinks)
           \* blinks recorded by the blinking updates right before this one
           earlier       == IF blinkUpdate # None /\ blinkUpdate.isBlinking
                            THEN blinkUpdate.run
                            ELSE 0
       IN  /\ previousBlinks' = blinks
           /\ blinkUpdate' = [kind       |-> "update",
                              isBlinking |-> blinking,
                              at         |-> now,
                              before     |-> previousBlinks,
                              recorded   |-> recorded,
                              run        |-> IF ~blinking THEN 0
                                             ELSE IF recorded THEN earlier + 1
                                             ELSE earlier]
           /\ fatigueHistory' = history
           /\ computed' = Append(computed, fatigueScore)
           /\ sessionFrames' = sessionFrames + 1
           /\ result' = [kind  |-> "result",
                         value |-> FaceAnalysisResult(face, healthMetrics,
                                       fatigueScore, calculateTrend(history))]
    /\ pc' = "idle"
    /\ UNCHANGED <<isInitialized, detectorsLoaded, now, face>>

ServiceNext ==
    \/ Initialize
    \/ Dispose
    \/ \E d \in TickSteps : Tick(d)
    \/ \E d \in PauseSteps : Pause(d)
    \/ AnalyzeFaceCall
    \/ NoFaceDetected
    \/ \E faceScore \in FaceScores : FaceDetected(faceScore)
    \/ NoLandmarksDetected
    \/ \E lm \in DetectedLandmarks : LandmarksDetected(lm)

Idle ==
    /\ VideoIdle
    /\ AggregateIdle
    /\ ScoreIdle
    /\ OverlapIdle
    /\ StorageIdle
    /\ TrendIdle /\ RecommendIdle

Init == ServiceInit /\ Idle

Next ==
    /\ ServiceNext
    /\ UNCHANGED <<videoVars, aggregateVars, scoreVars, trendVars,
                   recommendVars, overlapVars, extractVars,
                   outcomeVars, saveVars>>

Spec == Init /\ [][Next]_vars

----------------------------------------------------------------------------
(* aggregateFrameAnalyses applied to lists of per-frame results *)

CollectFrame(frame) ==
    /\ aggregated = None
    /\ Len(analyses) < MaxFrames
    /\ analyses' = Append(analyses, frame)
    /\ UNCHANGED aggregated

AggregateFrames ==
    /\ aggregated = None
    /\ aggregated' = aggregateFrameAnalyses(analyses)
    /\ UNCHANGED analyses

AggregateInit == ServiceInit /\ Idle

AggregateNext ==
    /\ \/ \E frame \in FrameSamples : CollectFrame(frame)
       \/ AggregateFrames
    /\ UNCHANGED <<serviceVars, videoVars, scoreVars, trendVars,
                   recommendVars, overlapVars, extractVars,
                   outcomeVars, saveVars>>

SpecAggregate == AggregateInit /\ [][AggregateNext]_vars

----------------------------------------------------------------------------
(* calculateFatigueScore applied to sample metrics *)

ScoreInit ==
    /\ ServiceInit
    /\ VideoIdle
    /\ AggregateIdle
    /\ TrendIdle
    /\ RecommendIdle
    /\ OverlapIdle
    /\ StorageIdle
    /\ metrics \in MetricSamples
    /\ score = <<>>

ComputeScore ==
    /\ score = <<>>
    /\ score' = <<calculateFatigueScore(metrics)>>
    /\ UNCHANGED metrics

ScoreNext ==
    /\ ComputeScore
    /\ UNCHANGED <<serviceVars, videoVars, aggregateVars, trendVars,
                   recommendVars, overlapVars, extractVars,
                   outcomeVars, saveVars>>

SpecScore == ScoreInit /\ [][ScoreNext]_vars

----------------------------------------------------------------------------
(* The fatigue history over a long run of analyzeFace calls: the subject's  *)
(* eyes are open at first and, once closed, stay closed.                    *)

AnalyzeFaceAgain ==
    /\ Len(computed) < MaxComputed
    /\ AnalyzeFaceBegin

EyesStayClosed(lm) ==
    /\ lm \in {AlertFace, DrowsyFace}
    /\ lm = AlertFace =>
         (IF blinkUpdate = None THEN TRUE ELSE ~blinkUpdate.isBlinking)
    /\ LandmarksDetected(lm)

HistoryNext ==
    /\ \/ Initialize
       \/ AnalyzeFaceAgain
       \/ FaceDetected(<<85>>)
       \/ \E lm \in DetectedLandmarks : EyesStayClosed(lm)
    /\ UNCHANGED <<videoVars, aggregateVars, scoreVars, trendVars,
                   recommendVars, overlapVars, extractVars,
                   outcomeVars, saveVars>>

SpecHistory == Init /\ [][HistoryNext]_vars

----------------------------------------------------------------------------
(* calculateTrend applied to the history after each recorded score *)

RecordScore(fatigueScore) ==
    /\ Len(fatigueHistory) < MaxTrendHistory
    /\ fatigueHistory' = recordScore(fatigueHistory, fatigueScore)
    /\ classification' = <<calculateTrend(fatigueHistory')>>
    /\ UNCHANGED <<isInitialized, detectorsLoaded, previousBlinks, now, pc,
                   face, result, blinkUpdate, computed, sessionFrames>>

TrendNext ==
    /\ \E fatigueScore \in TrendScores : RecordScore(fatigueScore)
    /\ UNCHANGED <<videoVars, aggregateVars, scoreVars, recommendVars,
                   overlapVars, extractVars,
                   outcomeVars, saveVars>>

SpecTrend == Init /\ [][TrendNext]_vars

----------------------------------------------------------------------------
(* analyzeVideo of restAnalysisService.ts: one recording session *)

\* for (let i = 0; i < 5; i++)
FramesPerVideo == 5

\* setTimeout(resolve, 400) before each frame
FrameDelayMs == 400

\* landmark sets the detector returns during a video
VideoLandmarks == {AlertFace, DrowsyFace}

\* analyzeVideo is called: await faceAnalysisService.initialize()
AnalyzeVideo ==
    /\ video = "idle"
    /\ Initialize
    /\ video' = "sleep"
    /\ frameIndex' = 0
    /\ UNCHANGED aggregateVars

\* the simulated processing time of the next frame has passed
VideoSleep ==
    /\ video = "sleep"
    /\ now' = now + FrameDelayMs
    /\ video' = "call"
    /\ UNCHANGED <<isInitialized, detectorsLoaded, previousBlinks,
                   fatigueHistory, pc, face, result, blinkUpdate, computed,
                   sessionFrames, frameIndex, aggregateVars>>

\* faceAnalysisService.analyzeFace(mockImageData) is called
VideoAnalyzeFace ==
    /\ video = "call"
    /\ AnalyzeFaceBegin
    /\ video' = "frame"
    /\ UNCHANGED <<frameIndex, aggregateVars>>

\* a variant that pushes a zero-valued frame for a null result
VideoFrameDone_pushNull ==
    /\ video = "frame"
    /\ pc = "idle"
    /\ IF result.kind = "threw"
       THEN /\ video' = "fallback"
            /\ UNCHANGED <<frameIndex, analyses>>
       ELSE /\ analyses' =
                 IF result.kind = "result"
                 THEN Append(analyses, result.value)
                 ELSE Append(analyses, Frame(<<>>, PartialFace, 0, "stable"))
            /\ frameIndex' = frameIndex + 1
            /\ video' = IF frameIndex + 1 < FramesPerVideo
                        THEN "sleep"
                        ELSE "aggregate"
    /\ UNCHANGED <<serviceVars, aggregated>>

\* analyzeFace has settled: if (frameResult) frameAnalyses.push(frameResult);
\* an exception leaves the loop for the catch block
VideoFrameDone ==
    /\ video = "frame"
    /\ pc = "idle"
    /\ IF result.kind = "threw"
       THEN /\ video' = "fallback"
            /\ UNCHANGED <<frameIndex, analyses>>
       ELSE /\ analyses' =
                 IF result.kind = "result"
                 THEN Append(analyses, result.value)
                 ELSE analyses
            /\ frameIndex' = frameIndex + 1
            /\ video' = IF frameIndex + 1 < FramesPerVideo
                        THEN "sleep"
                        ELSE "aggregate"
    /\ UNCHANGED <<serviceVars, aggregated>>

\* the RestAnalysisResult of analyzeVideo, as far as the properties read it
EnhancedResult(session, clock) ==
    [needsRest        |-> session.needsRest,
     needsSleep       |-> session.needsSleep,
     timestamp        |-> clock,
     enhancedAnalysis |-> <<session>>]

\* the RestAnalysisResult of performFallbackAnalysis
FallbackResult(energyLevel, clock) ==
    [needsRest        |-> energyLevel < 50,
     needsSleep       |-> energyLevel < 30,
     timestamp        |-> clock,
     enhancedAnalysis |-> <<>>]

\* setTimeout(resolve, 2000) of performFallbackAnalysis
FallbackDelayMs == 2000

\* a variant that lets the exception of the aggregation escape
VideoAggregate_rethrow ==
    /\ video = "aggregate"
    /\ aggregated' = aggregateFrameAnalyses(analyses)
    /\ IF aggregated'.kind = "error"
       THEN /\ video' = "failed"
            /\ returned' = aggregated'
            /\ UNCHANGED <<resultsStore, faceStore>>
       ELSE LET clock == Seconds(now)
                value == EnhancedResult(aggregated'.value, clock)
            IN  /\ video' = "saved"
                /\ returned' = [kind |-> "result", value |-> value]
                /\ resultsStore' = saveResult(resultsStore, value, clock)
                /\ faceStore' =
                     saveResult(faceStore,
                                [timestamp |-> clock,
                                 value     |-> aggregated'.value], clock)
    /\ UNCHANGED <<serviceVars, frameIndex, analyses>>

\* aggregateFrameAnalyses(frameAnalyses), then the result is built, saved in
\* both formats and returned; the exception of the aggregation goes to the
\* catch block
VideoAggregate ==
    /\ video = "aggregate"
    /\ aggregated' = aggregateFrameAnalyses(analyses)
    /\ IF aggregated'.kind = "error"
       THEN /\ video' = "fallback"
            /\ UNCHANGED <<returned, resultsStore, faceStore>>
       ELSE LET clock == Seconds(now)
                value == EnhancedResult(aggregated'.value, clock)
            IN  /\ video' = "saved"
                /\ returned' = [kind |-> "result", value |-> value]
                /\ resultsStore' = saveResult(resultsStore, value, clock)
                /\ faceStore' =
                     saveResult(faceStore,
                                [timestamp |-> clock,
                                 value     |-> aggregated'.value], clock)
    /\ UNCHANGED <<serviceVars, frameIndex, analyses>>

\* the catch block: return await performFallbackAnalysis()
VideoFallback(energyLevel) ==
    /\ video = "fallback"
    /\ now' = now + FallbackDelayMs
    /\ LET clock == Seconds(now')
           value == FallbackResult(energyLevel, clock)
       IN  /\ returned' = [kind |-> "result", value |-> value]
           /\ resultsStore' = saveResult(resultsStore, value, clock)
    /\ video' = "fallback-saved"
    /\ UNCHANGED <<isInitialized, detectorsLoaded, previousBlinks,
                   fatigueHistory, pc, face, result, blinkUpdate, computed,
                   sessionFrames, frameIndex, aggregateVars, faceStore>>

VideoServiceNext ==
    \/ Dispose
    \/ NoFaceDetected
    \/ FaceDetected(<<85>>)
    \/ NoLandmarksDetected
    \/ \E lm \in VideoLandmarks : LandmarksDetected(lm)

VideoNext ==
    /\ \/ AnalyzeVideo /\ UNCHANGED <<outcomeVars, faceStore>>
       \/ VideoSleep /\ UNCHANGED <<outcomeVars, faceStore>>
       \/ VideoAnalyzeFace /\ UNCHANGED <<outcomeVars, faceStore>>
       \/ VideoFrameDone /\ UNCHANGED <<outcomeVars, faceStore>>
       \/ VideoAggregate
       \/ \E energyLevel \in FallbackEnergyLevels : VideoFallback(energyLevel)
       \/ VideoServiceNext
            /\ UNCHANGED <<videoVars, aggregateVars, outcomeVars, faceStore>>
    /\ UNCHANGED <<scoreVars, trendVars, recommendVars, overlapVars,
                   extractVars, saves>>

SpecVideo == Init /\ [][VideoNext]_vars

\* every timer fires and every pending promise settles
SpecVideoFair == SpecVideo /\ WF_vars(VideoNext)

----------------------------------------------------------------------------
(* analyzeFace calls of two callers that overlap at their await points *)

InFlight == {c \in Callers : calls[c].pc # "idle"}

\* caller c calls analyzeFace
OverlapBegin(c) ==
    /\ calls[c].pc = "idle"
    /\ Len(computed) + Cardinality(InFlight) < MaxOverlapScores
    /\ IF ~isInitialized \/ ~detectorsLoaded
       THEN calls' = [calls EXCEPT ![c].result =
                        [kind |-> "threw",
                         message |-> "Face analysis service not initialized"]]
       ELSE calls' = [calls EXCEPT ![c] =
                        [NoCall EXCEPT !.pc = "faces"]]
    /\ UNCHANGED serviceVars

\* faceDetector.estimateFaces resolves with no face for caller c
OverlapNoFace(c) ==
    /\ calls[c].pc = "faces"
    /\ calls' = [calls EXCEPT ![c].pc = "idle",
                              ![c].result = [kind |-> "null"]]
    /\ UNCHANGED serviceVars

\* faceDetector.estimateFaces resolves with a face for caller c
OverlapFace(c, faceScore) ==
    /\ calls[c].pc = "faces"
    /\ calls' = [calls EXCEPT ![c].pc = "landmarks", ![c].face = faceScore]
    /\ UNCHANGED serviceVars

\* landmarkDetector.estimateFaces resolves with no landmark set for caller c
OverlapNoLandmarks(c) ==
    /\ calls[c].pc = "landmarks"
    /\ calls' = [calls EXCEPT ![c].pc = "idle",
                              ![c].result = [kind |-> "null"]]
    /\ UNCHANGED serviceVars

\* a variant that drops the score when another call is in flight
OverlapLandmarks_lostWhenOverlapping(c, lm) ==
    /\ calls[c].pc = "landmarks"
    /\ LET blinking      == isBlinking(lm)
           pushed        == trackBlinksPush(previousBlinks, blinking, now)
           blinks        == trackBlinks(previousBlinks, blinking, now)
           healthMetrics == analyzeHealthMetrics(lm,
                                                 calculateBlinkRate(blinks))
           fatigueScore  == calculateFatigueScore(healthMetrics)
           overlapping   == InFlight # {c}
           history       == IF overlapping
                            THEN fatigueHistory
                            ELSE recordScore(fatigueHistory, fatigueScore)
           recorded      == Len(pushed) > Len(previousBlinks)
           earlier       == IF blinkUpdate # None /\ blinkUpdate.isBlinking
                            THEN blinkUpdate.run
                            ELSE 0
       IN  /\ previousBlinks' = blinks
           /\ blinkUpdate' = [kind       |-> "update",
                              isBlinking |-> blinking,
                              at         |-> now,
                              before     |-> previousBlinks,
                              recorded   |-> recorded,
                              run        |-> IF ~blinking THEN 0
                                             ELSE IF recorded THEN earlier + 1
                                             ELSE earlier]
           /\ fatigueHistory' = history
           /\ computed' = Append(computed, fatigueScore)
           /\ sessionFrames' = sessionFrames + 1
           /\ calls' = [calls EXCEPT ![c] =
                 [pc         |-> "idle",
                  face       |-> calls[c].face,
                  result     |->
                      [kind  |-> "result",
                       value |-> FaceAnalysisResult(calls[c].face,
                                     healthMetrics, fatigueScore,
                                     calculateTrend(history))],
                  history    |-> history,
                  overlapped |-> overlapping]]
    /\ UNCHANGED <<isInitialized, detectorsLoaded, now, pc, face, result>>

\* landmarkDetector.estimateFaces resolves with lm for caller c: the rest of
\* analyzeFace has no await and runs to completion
OverlapLandmarks(c, lm) ==
    /\ calls[c].pc = "landmarks"
    /\ LET blinking      == isBlinking(lm)
           pushed        == trackBlinksPush(previousBlinks, blinking, now)
           blinks        == trackBlinks(previousBlinks, blinking, now)
           healthMetrics == analyzeHealthMetrics(lm,
                                                 calculateBlinkRate(blinks))
           fatigueScore  == calculateFatigueScore(healthMetrics)
           overlapping   == InFlight # {c}
           history       == recordScore(fatigueHistory, fatigueScore)
           recorded      == Len(pushed) > Len(previousBlinks)
           earlier       == IF blinkUpdate # None /\ blinkUpdate.isBlinking
                            THEN blinkUpdate.run
                            ELSE 0
       IN  /\ previousBlinks' = blinks
           /\ blinkUpdate' = [kind       |-> "update",
                              isBlinking |-> blinking,
                              at         |-> now,
                              before     |-> previousBlinks,
                              recorded   |-> recorded,
                              run        |-> IF ~blinking THEN 0
                                             ELSE IF recorded THEN earlier + 1
                                             ELSE earlier]
           /\ fatigueHistory' = history
           /\ computed' = Append(computed, fatigueScore)
           /\ sessionFrames' = sessionFrames + 1
           /\ calls' = [calls EXCEPT ![c] =
                 [pc         |-> "idle",
                  face       |-> calls[c].face,
                  result     |->
                      [kind  |-> "result",
                       value |-> FaceAnalysisResult(calls[c].face,
                                     healthMetrics, fatigueScore,
                                     calculateTrend(history))],
                  history    |-> history,
                  overlapped |-> overlapping]]
    /\ UNCHANGED <<isInitialized, detectorsLoaded, now, pc, face, result>>

OverlapNext ==
    /\ \/ (Initialize /\ UNCHANGED calls)
       \/ (Tick(250) /\ UNCHANGED calls)
       \/ \E c \in Callers :
            \/ OverlapBegin(c)
            \/ OverlapNoFace(c)
            \/ OverlapFace(c, <<85>>)
            \/ OverlapNoLandmarks(c)
            \/ \E lm \in VideoLandmarks : OverlapLandmarks(c, lm)
    /\ UNCHANGED <<videoVars, aggregateVars, scoreVars, trendVars,
                   recommendVars, extractVars, outcomeVars, saveVars>>

SpecOverlap == Init /\ [][OverlapNext]_vars

----------------------------------------------------------------------------
(* analyzeHealthMetrics and calculateFatigueScore applied to landmark sets *)

ExtractInit ==
    /\ ServiceInit
    /\ VideoIdle
    /\ AggregateIdle
    /\ ScoreIdle
    /\ TrendIdle
    /\ RecommendIdle
    /\ OverlapIdle
    /\ OutcomeIdle
    /\ SaveIdle
    /\ landmarks \in LandmarkSamples

\* analyzeHealthMetrics(faceLandmarks), its trackBlinks call included
ExtractMetrics ==
    /\ metrics = None
    /\ LET blinks == trackBlinks(previousBlinks, isBlinking(landmarks), now)
       IN  /\ previousBlinks' = blinks
           /\ metrics' = analyzeHealthMetrics(landmarks,
                                              calculateBlinkRate(blinks))
    /\ UNCHANGED <<isInitialized, detectorsLoaded, fatigueHistory, now, pc,
                   face, result, blinkUpdate, computed, sessionFrames,
                   score>>

\* calculateFatigueScore(healthMetrics)
ExtractScore ==
    /\ metrics # None
    /\ ComputeScore
    /\ UNCHANGED serviceVars

ExtractNext ==
    /\ \/ ExtractMetrics
       \/ ExtractScore
    /\ UNCHANGED <<videoVars, aggregateVars, trendVars, recommendVars,
                   overlapVars, extractVars, outcomeVars, saveVars>>

SpecExtract == ExtractInit /\ [][ExtractNext]_vars

----------------------------------------------------------------------------
(* saveFaceAnalysisResult called by the video analysis and by the live     *)
(* monitoring, on the one storage key                                      *)

\* a result stored one second too long ago, and one just recent enough
StoredBefore ==
    {<<>>,
     <<[timestamp |-> 0 - RetentionSeconds - 1, value |-> <<"old", 1>>]>>,
     <<[timestamp |-> 0 - RetentionSeconds, value |-> <<"kept", 1>>]>>}

SaveInit ==
    /\ ServiceInit
    /\ VideoIdle
    /\ AggregateIdle
    /\ ScoreIdle
    /\ TrendIdle
    /\ RecommendIdle
    /\ OverlapIdle
    /\ ExtractIdle
    /\ OutcomeIdle
    /\ faceStore \in StoredBefore
    /\ saves = [c \in Callers |-> NoSave]

\* caller c calls saveFaceAnalysisResult with a result of this moment:
\* AsyncStorage.getItem is under way
SaveBegin(c) ==
    /\ saves[c].pc = "idle"
    /\ Len(saves[c].passed) < MaxSaves
    /\ LET r == [timestamp |-> Seconds(now),
                 value     |-> <<c, Len(saves[c].passed) + 1>>]
       IN  saves' = [saves EXCEPT ![c].pc = "reading",
                                  ![c].passed = Append(@, r)]
    /\ UNCHANGED faceStore

\* getItem resolves: the list is extended and filtered, setItem is under way
SaveRead(c) ==
    /\ saves[c].pc = "reading"
    /\ saves' = [saves EXCEPT
                   ![c].pc = "writing",
                   ![c].writing = saveResult(faceStore, Last(saves[c].passed),
                                             Seconds(now))]
    /\ UNCHANGED faceStore

\* setItem resolves
SaveWrite(c) ==
    /\ saves[c].pc = "writing"
    /\ faceStore' = saves[c].writing
    /\ saves' = [saves EXCEPT ![c].pc = "idle", ![c].writing = <<>>]

SaveNext ==
    /\ \E c \in Callers :
         \/ SaveBegin(c)
         \/ SaveRead(c)
         \/ SaveWrite(c)
    /\ UNCHANGED <<serviceVars, videoVars, aggregateVars, scoreVars,
                   trendVars, recommendVars, overlapVars, extractVars,
                   outcomeVars>>

SpecSave == SaveInit /\ [][SaveNext]_vars

----------------------------------------------------------------------------
(* generateRecommendations applied to sample metrics and scores *)

RecommendInit ==
    /\ ServiceInit
    /\ VideoIdle
    /\ AggregateIdle
    /\ TrendIdle
    /\ OverlapIdle
    /\ StorageIdle
    /\ metrics \in RecommendMetrics
    /\ score \in {<<fatigueScore>> : fatigueScore \in RecommendScores}
    /\ advice = None

Recommend ==
    /\ advice = None
    /\ advice' = [kind  |-> "list",
                  value |-> generateRecommendations(metrics, score[1])]
    /\ UNCHANGED <<metrics, score>>

RecommendNext ==
    /\ Recommend
    /\ UNCHANGED <<serviceVars, videoVars, aggregateVars, trendVars,
                   overlapVars, extractVars,
                   outcomeVars, saveVars>>

SpecRecommend == RecommendInit /\ [][RecommendNext]_vars

----------------------------------------------------------------------------
(* Properties *)

Aggregated == aggregated.kind = "result"

Session == aggregated.value

Frames == 1..Len(analyses)

\* the sum of a list of numbers, taken from the front
RECURSIVE SumFromHead(_)
SumFromHead(s) == IF s = <<>> THEN 0 ELSE Head(s) + SumFromHead(Tail(s))

FrameScores == [i \in Frames |-> analyses[i].fatigueScore]

\* C1: for every FrameMetrics argument, also with a negative eye aspect
\* ratio or a pitch above 1000, calculateFatigueScore returns a score
\* within [0, 100].
C1_ScoreWithinRange ==
    score # <<>> => score[1] >= 0 /\ score[1] <= Points(100)

C1_Witness ==
    /\ score # <<>>
    /\ metrics.eyeAspectRatio < 0
    /\ metrics.headPose.pitch > Hundredths(1000)
    /\ totalScore(metrics) > Points(100)

\* C2: in every per-frame result and in every aggregated session result,
\* needsSleep implies needsRest.
C2_SleepImpliesRest ==
    /\ \A i \in Frames : analyses[i].needsSleep => analyses[i].needsRest
    /\ Aggregated => (Session.needsSleep => Session.needsRest)

C2_Witness ==
    /\ Aggregated
    /\ Session.needsSleep
    /\ \E i \in Frames : analyses[i].needsSleep
    /\ \E i \in Frames : ~analyses[i].needsSleep

\* C3: aggregateFrameAnalyses applied to an empty list fails with an
\* explicit error and yields no session result.
C3_EmptyListFails ==
    (aggregated # None /\ analyses = <<>>) =>
        aggregated = [kind |-> "error",
                      message |-> "No frame analyses available"]

C3_Witness == analyses = <<>> /\ aggregated.kind = "error"

\* two frames with fatigue scores 40 and 80 have been aggregated
C4_Case ==
    /\ Aggregated
    /\ Len(analyses) = 2
    /\ {analyses[1].fatigueScore, analyses[2].fatigueScore}
         = {Points(40), Points(80)}

\* C4 as stated: frames with scores 40 and 80 aggregate to the session score
\* 60 with needsRest = true and needsSleep = false.
C4_Original ==
    C4_Case =>
        /\ Session.fatigueScore.num = Points(60) * Session.fatigueScore.den
        /\ Session.needsRest = TRUE
        /\ Session.needsSleep = FALSE

\* C4 amended: frames with scores 40 and 80 aggregate to the session score
\* 60 (the mean), and for that score needsRest = false and
\* needsSleep = false.
C4_MeanSixtyNotFlagged ==
    C4_Case =>
        /\ Session.fatigueScore.num = Points(60) * Session.fatigueScore.den
        /\ Session.needsRest = FALSE
        /\ Session.needsSleep = FALSE

C4_Witness == C4_Case /\ analyses[1].fatigueScore = Points(40)

\* C5: needsRest holds exactly for scores strictly above 60 and needsSleep
\* exactly for scores strictly above 80; on the session both are taken from
\* the mean score, not from the flags of the frames.
C5_StrictThresholds ==
    /\ \A i \in Frames :
         /\ analyses[i].needsRest <=> analyses[i].fatigueScore > Points(60)
         /\ analyses[i].needsSleep <=> analyses[i].fatigueScore > Points(80)
    /\ Aggregated =>
         /\ Session.needsRest <=>
              SumFromHead(FrameScores) > Points(60) * Len(analyses)
         /\ Session.needsSleep <=>
              SumFromHead(FrameScores) > Points(80) * Len(analyses)

\* a frame at exactly 80 is not flagged for sleep, and the session is not
\* flagged for rest although most of its frames are
C5_Witness ==
    /\ Aggregated
    /\ ~Session.needsRest
    /\ Cardinality({i \in Frames : analyses[i].needsRest}) * 2
         > Len(analyses)
    /\ \E i \in Frames : /\ analyses[i].fatigueScore = Points(80)
                         /\ ~analyses[i].needsSleep

IndicatorNames ==
    {"heavyEyelids", "slowBlinks", "headDropping", "reducedFacialExpression"}

FramesWith(name) ==
    {i \in Frames : analyses[i].healthMetrics.drowsinessIndicators[name]}

\* C6: each boolean drowsiness indicator of the session is true iff it is
\* true in strictly more than half of the frames; a tie gives false.
C6_StrictMajority ==
    Aggregated =>
        \A name \in IndicatorNames :
            Session.healthMetrics.drowsinessIndicators[name]
                <=> Cardinality(FramesWith(name)) * 2 > Len(analyses)

\* two frames, one of them with heavy eyelids: the tie gives false
C6_Witness ==
    /\ Aggregated
    /\ Len(analyses) = 2
    /\ Cardinality(FramesWith("heavyEyelids")) = 1
    /\ ~Session.healthMetrics.drowsinessIndicators.heavyEyelids

\* the continuous fields of a frame, and of the session, by name
Continuous(r) ==
    [fatigueScore   |-> r.fatigueScore,
     confidence     |-> r.confidence,
     eyeAspectRatio |-> r.healthMetrics.eyeAspectRatio,
     blinkRate      |-> r.healthMetrics.blinkRate,
     eyeStrain      |-> r.healthMetrics.eyeStrain,
     facialTension  |-> r.healthMetrics.facialTension,
     pitch          |-> r.healthMetrics.headPose.pitch,
     yaw            |-> r.healthMetrics.headPose.yaw,
     roll           |-> r.healthMetrics.headPose.roll,
     pallor         |-> r.healthMetrics.skinAnalysis.pallor,
     darkness       |-> r.healthMetrics.skinAnalysis.darkness]

ContinuousNames == DOMAIN Continuous(Session)

FieldValues(name) == [i \in Frames |-> Continuous(analyses[i])[name]]

\* C7: each continuous field of the session is the arithmetic mean of that
\* field over all frames, and lies between the least and the greatest
\* per-frame value.
C7_ArithmeticMean ==
    Aggregated =>
        \A name \in ContinuousNames :
            LET mean   == Continuous(Session)[name]
                values == FieldValues(name)
            IN  /\ mean.den = Len(analyses)
                /\ mean.num = SumFromHead(values)
                /\ \E i \in Frames : values[i] * mean.den <= mean.num
                /\ \E i \in Frames : values[i] * mean.den >= mean.num

\* three frames whose mean score is strictly between their extremes
C7_Witness ==
    /\ Aggregated
    /\ Len(analyses) = 3
    /\ \E i \in Frames :
         FrameScores[i] * Len(analyses) < Session.fatigueScore.num
    /\ \E i \in Frames :
         FrameScores[i] * Len(analyses) > Session.fatigueScore.num

\* the places <<frame, index>> at which a recommendation occurs
Occurrences(text) ==
    {<<i, j>> \in Frames \X (1..8) :
        /\ j <= Len(analyses[i].recommendations)
        /\ analyses[i].recommendations[j] = text}

Before(p, q) == p[1] < q[1] \/ (p[1] = q[1] /\ p[2] < q[2])

FirstOccurrence(text) ==
    CHOOSE p \in Occurrences(text) :
        \A q \in Occurrences(text) : p = q \/ Before(p, q)

\* C8: the recommendations of the session are exactly the distinct
\* recommendations of the frames, each once, in order of first occurrence.
C8_DistinctInFirstSeenOrder ==
    Aggregated =>
        LET list == Session.recommendations
        IN  /\ \A k \in 1..Len(list) : Occurrences(list[k]) # {}
            /\ \A i \in Frames :
                 \A j \in 1..Len(analyses[i].recommendations) :
                    \E k \in 1..Len(list) :
                        list[k] = analyses[i].recommendations[j]
            /\ \A k, l \in 1..Len(list) :
                 k < l => /\ list[k] # list[l]
                          /\ Before(FirstOccurrence(list[k]),
                                    FirstOccurrence(list[l]))

\* a later frame repeats a recommendation of an earlier one and adds another
C8_Witness ==
    /\ Aggregated
    /\ Len(analyses) >= 2
    /\ \E text \in {Session.recommendations[k] :
                       k \in 1..Len(Session.recommendations)} :
          Cardinality({p[1] : p \in Occurrences(text)}) >= 2
    /\ Len(Session.recommendations) > Len(analyses[1].recommendations)

\* C9: the trend of the session is the trend of the last frame of the list.
C9_TrendOfLastFrame ==
    Aggregated => Session.trend = analyses[Len(analyses)].trend

C9_Witness ==
    /\ Aggregated
    /\ Len(analyses) >= 2
    /\ analyses[1].trend # analyses[Len(analyses)].trend
    /\ Session.trend = "improving"
    /\ Session.needsRest

Updated == blinkUpdate.kind = "update"

\* milliseconds between the update and the last blink stored before it
SinceLastBlink == blinkUpdate.at - Last(blinkUpdate.before)

\* C10 as stated: an update with isBlinking = true records a blink iff no
\* blink is stored or at least 200ms have passed since the last recorded
\* one; an update with isBlinking = false records none.
C10_Original ==
    Updated =>
        (blinkUpdate.recorded <=>
            /\ blinkUpdate.isBlinking
            /\ \/ blinkUpdate.before = <<>>
               \/ SinceLastBlink >= 200)

\* C10 amended: an update with isBlinking = true records a blink iff no
\* blink is stored or more than 200ms have passed since the last recorded
\* one (150ms and exactly 200ms after: not recorded, 250ms after: recorded);
\* an update with isBlinking = false records none.
C10_DebounceOver200 ==
    Updated =>
        /\ blinkUpdate.recorded <=>
             /\ blinkUpdate.isBlinking
             /\ \/ blinkUpdate.before = <<>>
                \/ SinceLastBlink > 200
        /\ blinkUpdate.recorded =>
             /\ previousBlinks # <<>>
             /\ Last(previousBlinks) = blinkUpdate.at
        /\ ~blinkUpdate.recorded =>
             \A i \in 1..Len(previousBlinks) :
                \E j \in 1..Len(blinkUpdate.before) :
                    previousBlinks[i] = blinkUpdate.before[j]

\* a blinking update exactly 200ms after the last recorded blink
C10_Witness ==
    /\ Updated
    /\ blinkUpdate.isBlinking
    /\ blinkUpdate.before # <<>>
    /\ SinceLastBlink = 200
    /\ ~blinkUpdate.recorded

C12_BlinkWindow ==
    /\ Updated =>
         \A i \in 1..Len(previousBlinks) :
            /\ blinkUpdate.at - previousBlinks[i] < 60000
            /\ blinkUpdate.at - previousBlinks[i] >= 0
    /\ result.kind = "result" =>
         result.value.healthMetrics.blinkRate = Len(previousBlinks)
    /\ (/\ Updated
        /\ ~blinkUpdate.isBlinking
        /\ blinkUpdate.before # <<>>
        /\ SinceLastBlink > 60000) => previousBlinks = <<>>

\* a blink was stored, and the next update comes 60150ms later
C12_Witness ==
    /\ Updated
    /\ ~blinkUpdate.isBlinking
    /\ blinkUpdate.before # <<>>
    /\ SinceLastBlink > 60000
    /\ result.kind = "result"
    /\ result.value.healthMetrics.blinkRate = 0

\* the last n entries of a list
LastEntries(list, n) ==
    [k \in 1..Min(n, Len(list)) |-> list[Len(list) - Min(n, Len(list)) + k]]

\* C13: the fatigue history holds at most 30 scores, and they are the most
\* recent up-to-30 computed scores in the order they were computed.
C13_LastThirtyScores ==
    /\ Len(fatigueHistory) <= 30
    /\ fatigueHistory = LastEntries(computed, 30)

\* the 31st score has been appended and the evicted, oldest score differs
\* from the one that is now the oldest
C13_Witness ==
    /\ Len(computed) = 31
    /\ Len(fatigueHistory) = 30
    /\ computed[1] # computed[2]
    /\ fatigueHistory[1] = computed[2]

Classified == classification # <<>>

\* the last five scores, and the up to five scores before them
RecentScores == LastEntries(fatigueHistory, 5)

OlderScores ==
    LET n == Len(fatigueHistory)
        c == Min(5, n - 5)
    IN  [k \in 1..c |-> fatigueHistory[n - 5 - c + k]]

\* (mean(RecentScores) - mean(OlderScores)) * 5 * Len(OlderScores)
ScaledDifference ==
    SumFromHead(RecentScores) * Len(OlderScores)
    - SumFromHead(OlderScores) * 5

\* C14: with at least 6 scores the trend is improving iff
\* mean(last 5) - mean(the up to 5 scores before them) < -5, declining iff
\* it is > 5, and stable otherwise (so also at exactly -5 and 5).
C14_TrendFromDifference ==
    (Classified /\ Len(fatigueHistory) >= 6) =>
        LET five == Points(5) * 5 * Len(OlderScores)
        IN  /\ classification[1] = "improving" <=> ScaledDifference < -five
            /\ classification[1] = "declining" <=> ScaledDifference > five
            /\ classification[1] = "stable" <=>
                 (ScaledDifference >= -five /\ ScaledDifference <= five)

\* history [80,80,80,80,80,30,30,30,30,30] gives improving
C14_Witness ==
    /\ Classified
    /\ fatigueHistory = [k \in 1..10 |->
                            IF k <= 5 THEN Points(80) ELSE Points(30)]
    /\ classification[1] = "improving"

\* C15: with fewer than 5 scores, and with exactly 5, the trend is stable
\* whatever the scores are.
C15_StableUpToFive ==
    (Classified /\ Len(fatigueHistory) <= 5) => classification[1] = "stable"

\* five scores that fall by 50 points
C15_Witness ==
    /\ Classified
    /\ Len(fatigueHistory) = 5
    /\ fatigueHistory[1] = Points(80)
    /\ fatigueHistory[5] = Points(30)
    /\ classification[1] = "stable"

Advised == advice.kind = "list"

\* generateRecommendations(score 90, eyeStrain 70, blinkRate 5, pitch 20)
\* has returned
C16_Case ==
    /\ Advised
    /\ score[1] = Points(90)
    /\ metrics.eyeStrain = Hundredths(70)
    /\ metrics.blinkRate = 5
    /\ metrics.headPose.pitch = Hundredths(20)

\* C16 as stated: for score 90, eyeStrain 70, blinkRate 5 and pitch 20 the
\* list has exactly four items: the nap-urgency message, the screen-break
\* message, the blink-rate message, the posture message.
C16_Original ==
    C16_Case =>
        advice.value = <<"Take a 20-30 minute nap immediately",
                         "Look away from screens for 5-10 minutes",
                         "Consciously blink more frequently",
                         "Improve your posture">>

\* C16 amended: for these arguments the list has exactly eight items, two
\* per rule, in the order nap urgency, screen break, blink rate, posture.
C16_FourPairsInOrder ==
    C16_Case =>
        advice.value =
            <<"Take a 20-30 minute nap immediately",
              "Avoid driving or operating machinery",
              "Look away from screens for 5-10 minutes",
              "Practice the 20-20-20 rule (look 20 feet away for 20 seconds every 20 minutes)",
              "Consciously blink more frequently",
              "Use eye drops if eyes feel dry",
              "Improve your posture",
              "Adjust your workspace ergonomics">>

C16_Witness == C16_Case /\ Len(advice.value) = 8

\* no rule of generateRecommendations fires
NoRuleFires ==
    /\ score[1] <= Points(60)
    /\ metrics.eyeStrain <= Hundredths(60)
    /\ metrics.blinkRate >= 10
    /\ metrics.headPose.pitch <= Hundredths(15)

PositiveMessages ==
    <<"Your alertness levels look good!",
      "Keep maintaining healthy sleep habits">>

Advises(text) == \E k \in 1..Len(advice.value) : advice.value[k] = text

\* C17 as stated: when no rule fires the list is a single positive message,
\* which never appears together with a rule-triggered recommendation.
C17_Original ==
    Advised =>
        /\ NoRuleFires =>
             (Len(advice.value) = 1 /\ Advises(PositiveMessages[1]))
        /\ Advises(PositiveMessages[1]) => Len(advice.value) = 1

\* C17 amended: when no rule fires the list is exactly the two positive
\* messages ("alertness looks good", "keep maintaining healthy sleep
\* habits"), and neither of them appears together with a rule-triggered
\* recommendation.
C17_PositivePairAlone ==
    Advised =>
        /\ NoRuleFires => advice.value = PositiveMessages
        /\ (Advises(PositiveMessages[1]) \/ Advises(PositiveMessages[2])) =>
             (NoRuleFires /\ advice.value = PositiveMessages)

\* every argument sits exactly on its rule's threshold
C17_Witness ==
    /\ Advised
    /\ score[1] = Points(60)
    /\ metrics.eyeStrain = Hundredths(60)
    /\ metrics.blinkRate = 10
    /\ metrics.headPose.pitch = Hundredths(15)
    /\ advice.value = PositiveMessages

\* C18: blink history and fatigue history are never shared across analysis
\* sessions: after initialize() opens a session, also after a dispose(),
\* the two histories hold entries of that session's frames only, so they
\* are never longer than the number of frames the session has analysed.
C18_HistoriesPerSession ==
    /\ Len(fatigueHistory) <= sessionFrames
    /\ Len(previousBlinks) <= sessionFrames

WithinRange(value, top) == 0 <= value /\ value <= top

OnlyDetectedFrames ==
    /\ Len(analyses) = Len(computed)
    /\ \A i \in Frames : analyses[i].fatigueScore = computed[i]

\* the blink history is as the last frame with a landmark set left it
BlinksOfLastDetection ==
    previousBlinks =
        IF blinkUpdate = None
        THEN <<>>
        ELSE trackBlinks(blinkUpdate.before, blinkUpdate.isBlinking,
                         blinkUpdate.at)

\* analyzeFace has returned null to analyzeVideo
NullFrame == video = "frame" /\ pc = "idle" /\ result.kind = "null"

\* C20: a frame with no face or no landmark set is treated as absent:
\* analyzeFace returns null for it and leaves the blink history and the
\* fatigue history as the last detected frame left them, and analyzeVideo
\* hands to the aggregation exactly the detected frames, so the session
\* mean is taken over those frames only.
C20_NoDetectionFrameAbsent ==
    /\ BlinksOfLastDetection
    /\ fatigueHistory = computed
    /\ (NullFrame \/ video \in {"sleep", "call", "aggregate", "saved"})
         => OnlyDetectedFrames
    /\ Aggregated =>
         /\ Session.fatigueScore = Average(computed)
         /\ \A i \in Frames : analyses[i].faceDetected

\* three of the five frames had a face; the last one had none
C20_Witness ==
    /\ Aggregated
    /\ frameIndex = FramesPerVideo
    /\ Len(analyses) = 3
    /\ result.kind = "null"
    /\ previousBlinks # <<>>

Scored == score # <<>>

\* C21 as stated: earFatigue is never negative, is 0 for every
\* eyeAspectRatio >= 0.3 and is at least 100 for every eyeAspectRatio <= 0.
C21_Original ==
    Scored =>
        /\ earFatigue(metrics.eyeAspectRatio) >= 0
        /\ metrics.eyeAspectRatio >= 300 =>
             earFatigue(metrics.eyeAspectRatio) = 0
        /\ metrics.eyeAspectRatio <= 0 =>
             earFatigue(metrics.eyeAspectRatio) >= Hundredths(100)

\* C21 amended: earFatigue is never negative, is 0 for every
\* eyeAspectRatio >= 0.3, and is at least 90 for every eyeAspectRatio <= 0,
\* exactly 90 at 0: it is not saturated there.
C21_NinetyAtZero ==
    Scored =>
        /\ earFatigue(metrics.eyeAspectRatio) >= 0
        /\ metrics.eyeAspectRatio >= 300 =>
             earFatigue(metrics.eyeAspectRatio) = 0
        /\ metrics.eyeAspectRatio <= 0 =>
             earFatigue(metrics.eyeAspectRatio) >= Hundredths(90)
        /\ metrics.eyeAspectRatio = 0 =>
             earFatigue(metrics.eyeAspectRatio) = Hundredths(90)

\* a score computed for fully closed eyes
C21_Witness ==
    /\ Scored
    /\ metrics.eyeAspectRatio = 0
    /\ earFatigue(metrics.eyeAspectRatio) < Hundredths(100)

\* C22: blinkFatigue is 80 for every blinkRate < 10 and
\* max(0, (30 - blinkRate) * 2) from 10 on; 9 gives 80 and exactly 10 gives
\* 40; for non-negative rates it is within [0, 80].
C22_BlinkStepAtTen ==
    Scored =>
        LET rate  == metrics.blinkRate
            value == blinkFatigue(rate)
        IN  /\ rate < 10 => value = Hundredths(80)
            /\ (rate >= 10 /\ rate <= 30) =>
                 value = Hundredths(60) - rate * 200
            /\ rate > 30 => value = 0
            /\ rate = 9 => value = Hundredths(80)
            /\ rate = 10 => value = Hundredths(40)
            /\ rate >= 0 => (value >= 0 /\ value <= Hundredths(80))

\* a score computed for a blink rate of exactly 10
C22_Witness ==
    /\ Scored
    /\ metrics.blinkRate = 10
    /\ blinkFatigue(metrics.blinkRate) = Hundredths(40)

\* C23: overlapping analyzeFace calls update the histories one call at a
\* time: every computed score is in the fatigue history exactly once, in the
\* order of computation, the blink history is as the last blink update left
\* it, and each result's trend is classified on the history that ends with
\* that result's own score.
C23_SerializedUpdates ==
    /\ fatigueHistory = computed
    /\ BlinksOfLastDetection
    /\ \A c \in Callers :
         calls[c].result.kind = "result" =>
            LET own == calls[c].result.value
                history == calls[c].history
            IN  /\ history # <<>>
                /\ Last(history) = own.fatigueScore
                /\ own.trend = calculateTrend(history)
                /\ Len(history) <= Len(fatigueHistory)
                /\ SubSeq(fatigueHistory, 1, Len(history)) = history

\* both callers have a result, one of them completed while the other call
\* was in flight
C23_Witness ==
    /\ \A c \in Callers : calls[c].result.kind = "result"
    /\ \E c \in Callers : calls[c].overlapped
    /\ Len(fatigueHistory) >= 2

\* the place of a recommendation in the list, 0 when it is not there
Position(text) ==
    IF Advises(text)
    THEN CHOOSE k \in 1..Len(advice.value) : advice.value[k] = text
    ELSE 0

\* the leading recommendation of each rule, in rule order
RuleMessages ==
    <<"Take a 20-30 minute nap immediately",
      "Take a 10-15 minute break",
      "Look away from screens for 5-10 minutes",
      "Consciously blink more frequently",
      "Improve your posture">>

\* C24: the list holds the fatigue-level recommendation first (nap urgency
\* iff score > 80, short break iff 60 < score <= 80, never both), then
\* screen break iff eyeStrain > 60, then blink guidance iff blinkRate < 10,
\* then posture guidance iff pitch > 15; every rule that fires is in the
\* list, in rule order, whatever the other rules do.
C24_FixedRuleOrder ==
    Advised =>
        /\ Advises(RuleMessages[1]) <=> score[1] > Points(80)
        /\ Advises(RuleMessages[2]) <=>
             (score[1] > Points(60) /\ score[1] <= Points(80))
        /\ ~(Advises(RuleMessages[1]) /\ Advises(RuleMessages[2]))
        /\ Advises(RuleMessages[3]) <=> metrics.eyeStrain > Hundredths(60)
        /\ Advises(RuleMessages[4]) <=> metrics.blinkRate < 10
        /\ Advises(RuleMessages[5]) <=>
             metrics.headPose.pitch > Hundredths(15)
        /\ \A i, j \in 1..5 :
             (i < j /\ Advises(RuleMessages[i]) /\ Advises(RuleMessages[j]))
                => Position(RuleMessages[i]) < Position(RuleMessages[j])
        /\ score[1] > Points(60) =>
             (Position(RuleMessages[1]) = 1 \/ Position(RuleMessages[2]) = 1)

\* the short-break rule and the three metric rules all fire
C24_Witness ==
    /\ Advised
    /\ score[1] = Points(80)
    /\ Position(RuleMessages[2]) = 1
    /\ Position(RuleMessages[3]) = 3
    /\ Position(RuleMessages[4]) = 5
    /\ Position(RuleMessages[5]) = 7

Extracted == metrics # None

\* what one eye contributes to the mean eye aspect ratio
EyeRatio(points, ratio) == IF points < 6 THEN 300 ELSE ratio

VideoDone == video \in {"saved", "fallback-saved"}

\* what analyzeVideo resolves with, and what it has saved by then
VideoOutcome ==
    /\ returned.kind \in {"none", "result"}
    /\ video \in {"idle", "sleep", "call", "frame", "aggregate", "fallback",
                  "saved", "fallback-saved"}
    /\ returned.kind = "result" <=> VideoDone
    /\ video = "fallback" =>
         \/ result.kind = "threw"
         \/ (frameIndex = FramesPerVideo /\ analyses = <<>>
             /\ aggregated.kind = "error")
    /\ video = "fallback-saved" =>
         /\ returned.value.enhancedAnalysis = <<>>
         /\ resultsStore = <<returned.value>>
         /\ faceStore = <<>>
    /\ video = "saved" =>
         /\ returned.value.enhancedAnalysis = <<Session>>
         /\ resultsStore = <<returned.value>>

SessionAdvises(text) ==
    \E k \in 1..Len(Session.recommendations) :
        Session.recommendations[k] = text

\* C26: in a session result built from analyzeFace results, needsSleep
\* implies that the nap-urgency recommendation is in the list, and needsRest
\* implies that the nap-urgency or the short-break recommendation is.
C26_FlagsHaveTheirAdvice ==
    Aggregated =>
        /\ Session.needsSleep => SessionAdvises(RuleMessages[1])
        /\ Session.needsRest =>
             (SessionAdvises(RuleMessages[1])
              \/ SessionAdvises(RuleMessages[2]))

\* a session that needs sleep although one of its frames scored 80 or less
C26_Witness ==
    /\ Aggregated
    /\ Session.needsSleep
    /\ SessionAdvises(RuleMessages[1])
    /\ \E i \in Frames : analyses[i].fatigueScore <= Points(SleepThreshold)

\* C27: the stored blink timestamps are strictly increasing, consecutive
\* ones are more than 200ms apart and, all lying within one 60000ms window,
\* they are fewer than 300, so no reported blink rate exceeds 300.
C27_BlinksSpacedOut ==
    /\ \A i \in 1..(Len(previousBlinks) - 1) :
         previousBlinks[i + 1] - previousBlinks[i] > BlinkDebounceMs
    /\ previousBlinks # <<>> =>
         /\ Last(previousBlinks) - Head(previousBlinks) < BlinkWindowMs
         /\ (Len(previousBlinks) - 1) * (BlinkDebounceMs + 1)
              <= Last(previousBlinks) - Head(previousBlinks)
    /\ Len(previousBlinks) <= 300
    /\ result.kind = "result" => result.value.healthMetrics.blinkRate <= 300

\* two stored blinks, and a closed-eye update too soon after the last one
C27_Witness ==
    /\ Len(previousBlinks) >= 2
    /\ Updated
    /\ blinkUpdate.isBlinking
    /\ ~blinkUpdate.recorded
    /\ blinkUpdate.at - Last(previousBlinks) = BlinkDebounceMs

\* a step in which analyzeFace is called
AnalyzeFaceCalled ==
    /\ pc = "idle"
    /\ pc' = "faces" \/ result' # result

\* C28: analyzeFace called while the service is not initialized, before
\* initialize() or after dispose(), throws the not-initialized error instead
\* of starting an analysis, and leaves the blink history and the fatigue
\* history as they were.
C28_ThrowsWhenNotInitialized ==
    [][AnalyzeFaceCalled =>
         IF isInitialized /\ detectorsLoaded
         THEN pc' = "faces" /\ result' = None
         ELSE /\ pc' = "idle"
              /\ result' = [kind |-> "threw",
                            message |->
                                "Face analysis service not initialized"]
              /\ previousBlinks' = previousBlinks
              /\ fatigueHistory' = fatigueHistory]_vars

\* the error after dispose(), with both histories still filled
C28_Witness ==
    /\ result.kind = "threw"
    /\ ~isInitialized
    /\ detectorsLoaded
    /\ fatigueHistory # <<>>
    /\ previousBlinks # <<>>

AllSavesDone == \A c \in Callers : saves[c].pc = "idle"

Stored(r) == \E k \in 1..Len(faceStore) : faceStore[k] = r

\* C30: once no save is pending, every result that was passed to
\* saveFaceAnalysisResult with a timestamp within the last 30 days is in the
\* stored list, also when two saves overlapped.
C30_NoSaveLost ==
    AllSavesDone =>
        \A c \in Callers :
            \A k \in 1..Len(saves[c].passed) :
                saves[c].passed[k].timestamp
                    >= Seconds(now) - RetentionSeconds
                  => Stored(saves[c].passed[k])

====
